---- MODULE Spec2Model ----
(***************************************************************************)
(* State-machine model of the Vulkan video encoder coordinator             *)
(* (VideoEncoder in src/videoencoder.cpp), of the two hardware queues it   *)
(* drives, and of the driver program of src/main.cpp.                      *)
(***************************************************************************)
EXTENDS Integers, Sequences, FiniteSets, TLC

(* ------------------------------ bounds -------------------------------- *)

\* frames queued in one session
MaxFrames == 3
\* length of the serialized parameter sets the driver hands back
MaxHeaderLen == 2
\* length of one encoded packet reported by the query
MaxPacketLen == 2
\* widths and heights passed to init
MaxWidth == 6
MaxHeight == 3
\* frames the driver program encodes (NUM_FRAMES_TO_WRITE, scaled down)
NumFramesToWrite == 5
\* frames a client that retrieves every packet queues in one session: two
\* whole groups of pictures and the start of a third
MaxGopFrames == 34
\* widths and heights whose sequence parameter set is computed: past two
\* macroblocks, so that multiples of 16 and all paddings occur
MaxSpsWidth == 34
MaxSpsHeight == 18

(* ------------------------- program constants -------------------------- *)

GOP_LENGTH == 16
IMAGE_INFLIGHT_COUNT == 2
WIDTH == 800
HEIGHT == 600
log2_max_pic_order_cnt_lsb_minus4 == 4
H264MbSizeAlignment == 16
STD_VIDEO_H264_MAX_NUM_LIST_REF == 32
STD_VIDEO_H264_NO_REFERENCE_PICTURE == 255

Widths == 4..MaxWidth
Heights == 2..MaxHeight
HeaderLens == 1..MaxHeaderLen
PacketLens == 1..MaxPacketLen

\* marks the header in the sequence of returned results; frames are 0, 1, ...
Header == 0 - 1
NoFrame == 0 - 2

VARIABLES
    m_initialized, m_running, m_width, m_height, m_sps,
    m_bitStreamHeader,          \* length of the std::vector<char>
    m_bitStreamHeaderPending, m_frameCount,
    m_computeCommandBuffer, m_encodeCommandBuffer,
    session,                    \* the objects init creates and deinit destroys
    fence,                      \* m_encodeFinishedFence
    sem,                        \* m_interQueueSemaphore, ...2, ...3: pending signals
    computeQueue, encodeQueue,  \* batches submitted and not yet started
    computeBusy, encodeBusy,    \* the batch each queue is executing
    m_bitStreamData,            \* frame whose packet the output buffer holds
    m_yCbCrImage,               \* frame whose conversion the surface holds
    m_dpbImages,                \* the picture each of the two DPB slots holds
    videoSessionResets,         \* control commands the video session executed
    queryPool,                  \* bitstreamSize of query slot 0, 0 = unavailable
    inFlight,                   \* frames submitted and not retrieved
    nQueued,                    \* frames queued since the session was created
    results,                    \* non-zero results finishEncode returned
    lastCall,                   \* the last call of the public interface
    aborted,                    \* an assertion failed or the process crashed
    faults,                     \* misuses of the Vulkan API that happened
    pc, currentFrameNumber, outfile

coordVars == <<m_initialized, m_running, m_width, m_height, m_sps, m_bitStreamHeader,
               m_bitStreamHeaderPending, m_frameCount,
               m_computeCommandBuffer, m_encodeCommandBuffer>>
hwVars == <<session, fence, sem, computeQueue, encodeQueue, computeBusy,
            encodeBusy, m_bitStreamData, queryPool, m_yCbCrImage, m_dpbImages,
            videoSessionResets>>
ghostVars == <<inFlight, nQueued, results>>
drvVars == <<pc, currentFrameNumber, outfile>>
vars == <<coordVars, hwVars, ghostVars, lastCall, aborted, faults, drvVars>>

Call(op, kind, size, frame) ==
    [op |-> op, kind |-> kind, size |-> size, frame |-> frame]

\* x & ~1
ClearBit0(x) == x - (x % 2)
\* x & 1
Bit0(x) == x % 2
\* !x
LogicalNot(x) == IF x = 0 THEN 1 ELSE 0

\* an AlignSize that rounds down
AlignSize_down(size, alignment) == size - (size % alignment)

\* (size + alignment - 1) & ~(alignment - 1), alignment a power of two
AlignSize(size, alignment) ==
    (size + alignment - 1) - ((size + alignment - 1) % alignment)

\* the fields of the sequence parameter set that depend on the resolution;
\* chroma_format_idc is 4:2:0, so the crop offsets are halved
getStdVideoH264SequenceParameterSet(width, height) ==
    LET mbAlignedWidth == AlignSize(width, H264MbSizeAlignment)
        mbAlignedHeight == AlignSize(height, H264MbSizeAlignment)
        cropping == mbAlignedWidth - width # 0 \/ mbAlignedHeight - height # 0
    IN  [pic_width_in_mbs_minus1 |->
             (mbAlignedWidth \div H264MbSizeAlignment) - 1,
         pic_height_in_map_units_minus1 |->
             (mbAlignedHeight \div H264MbSizeAlignment) - 1,
         frame_cropping_flag |-> cropping,
         frame_crop_right_offset |->
             IF cropping THEN (mbAlignedWidth - width) \div 2
                         ELSE mbAlignedWidth - width,
         frame_crop_bottom_offset |->
             IF cropping THEN (mbAlignedHeight - height) \div 2
                         ELSE mbAlignedHeight - height,
         log2_max_pic_order_cnt_lsb_minus4 |->
             log2_max_pic_order_cnt_lsb_minus4]

\* m_sps before createVideoSessionParameters assigns it; never read then
NoSps == getStdVideoH264SequenceParameterSet(0, 0)

\* a DPB image nothing was encoded into
EmptySlot == [frame |-> NoFrame, FrameNum |-> NoFrame, PicOrderCnt |-> NoFrame]

(* ------------------------- construction ------------------------------- *)

\* VideoEncoder's default member initializers; the fields without one hold
\* indeterminate values.
InitState ==
    /\ m_initialized = FALSE
    /\ m_running = FALSE
    /\ m_width = 0
    /\ m_height = 0
    /\ m_sps = NoSps
    /\ m_bitStreamHeader = 0
    /\ m_bitStreamHeaderPending \in BOOLEAN
    /\ m_frameCount \in 0..1
    /\ m_computeCommandBuffer = "none"
    /\ m_encodeCommandBuffer = "none"
    /\ session = "none"
    /\ fence = "none"
    /\ sem = [i \in 1..3 |-> 0]
    /\ computeQueue = <<>>
    /\ encodeQueue = <<>>
    /\ computeBusy = <<>>
    /\ encodeBusy = <<>>
    /\ m_bitStreamData = NoFrame
    /\ queryPool = 0
    /\ m_yCbCrImage = NoFrame
    /\ m_dpbImages = [i \in 0..1 |-> EmptySlot]
    /\ videoSessionResets = 0
    /\ inFlight = {}
    /\ nQueued = 0
    /\ results = <<>>
    /\ lastCall = Call("none", "none", 0, NoFrame)
    /\ aborted = FALSE
    /\ faults = {}
    /\ currentFrameNumber = 0
    /\ outfile = <<>>

(* ------------------------- hardware queues ---------------------------- *)

Signal(s, set) == [i \in 1..3 |-> IF i \in set THEN 1 ELSE s[i]]
Consume(s, set) == [i \in 1..3 |-> IF i \in set THEN 0 ELSE s[i]]
SignalFaults(s, set) ==
    IF \E i \in set : s[i] = 1 THEN {"semaphoreSignalledTwice"} ELSE {}

\* the compute queue starts the conversion batch once its semaphore waits
\* are satisfied; from here on the copies overwrite the composite surface
ComputeBegin ==
    /\ ~aborted /\ session = "live"
    /\ computeBusy = <<>> /\ computeQueue # <<>>
    /\ \A i \in Head(computeQueue).wait : sem[i] = 1
    /\ sem' = Consume(sem, Head(computeQueue).wait)
    /\ computeBusy' = <<Head(computeQueue)>>
    /\ computeQueue' = Tail(computeQueue)
    /\ m_yCbCrImage' = NoFrame
    /\ UNCHANGED <<coordVars, session, fence, encodeQueue, encodeBusy,
                   m_bitStreamData, queryPool, m_dpbImages,
                   videoSessionResets, ghostVars, lastCall, aborted, faults,
                   drvVars>>

ComputeEnd ==
    /\ ~aborted /\ session = "live"
    /\ computeBusy # <<>>
    /\ sem' = Signal(sem, computeBusy[1].signal)
    /\ faults' = faults \cup SignalFaults(sem, computeBusy[1].signal)
    /\ m_yCbCrImage' = computeBusy[1].frame
    /\ computeBusy' = <<>>
    /\ UNCHANGED <<coordVars, session, fence, computeQueue, encodeQueue,
                   encodeBusy, m_bitStreamData, queryPool, m_dpbImages,
                   videoSessionResets, ghostVars, lastCall, aborted, drvVars>>

\* the encode queue starts the encode batch: vkCmdResetQueryPool comes first
EncodeBegin ==
    /\ ~aborted /\ session = "live"
    /\ encodeBusy = <<>> /\ encodeQueue # <<>>
    /\ \A i \in Head(encodeQueue).wait : sem[i] = 1
    /\ sem' = Consume(sem, Head(encodeQueue).wait)
    /\ encodeBusy' = <<Head(encodeQueue)>>
    /\ encodeQueue' = Tail(encodeQueue)
    /\ queryPool' = 0
    /\ UNCHANGED <<coordVars, session, fence, computeQueue, computeBusy,
                   m_bitStreamData, m_yCbCrImage, m_dpbImages,
                   videoSessionResets, ghostVars, lastCall, aborted, faults,
                   drvVars>>

\* the encode finishes: the packet is in the output buffer, the reconstructed
\* picture in the setup slot, the query holds the packet's size, the
\* semaphore and the fence are signalled
EncodeEnd ==
    /\ ~aborted /\ session = "live"
    /\ encodeBusy # <<>>
    /\ \E n \in PacketLens : queryPool' = n
    /\ m_bitStreamData' = encodeBusy[1].frame
    /\ sem' = Signal(sem, encodeBusy[1].signal)
    /\ faults' = faults \cup SignalFaults(sem, encodeBusy[1].signal)
    /\ fence' = "signaled"
    /\ m_dpbImages' =
           [m_dpbImages EXCEPT ![encodeBusy[1].pSetupReferenceSlot.slotIndex] =
               [frame |-> encodeBusy[1].frame,
                FrameNum |-> encodeBusy[1].pSetupReferenceSlot.info.FrameNum,
                PicOrderCnt |->
                    encodeBusy[1].pSetupReferenceSlot.info.PicOrderCnt]]
    /\ videoSessionResets' =
           videoSessionResets + (IF encodeBusy[1].codingControl THEN 1 ELSE 0)
    /\ encodeBusy' = <<>>
    /\ UNCHANGED <<coordVars, session, computeQueue, encodeQueue, computeBusy,
                   m_yCbCrImage, ghostVars, lastCall, aborted, drvVars>>

(* --------------------------- coordinator ------------------------------ *)

\* assert(!m_running) fails: the process aborts inside the call
AssertFailed(op) ==
    /\ aborted' = TRUE
    /\ lastCall' = Call(op, "assert", 0, NoFrame)
    /\ UNCHANGED <<coordVars, hwVars, ghostVars, faults>>

\* a call hands destroyed or never created handles to the driver: undefined
\* behaviour, which either crashes or lets the assignments of the call happen
Undefined(op, crash, size) ==
    /\ faults' = faults \cup {"useOfDestroyedObject"}
    /\ aborted' = crash
    /\ lastCall' = Call(op, "undefined", size, NoFrame)

\* the conversion batch that waits for nothing
ComputeWaits_none == {}

\* the wait semaphores of the conversion batch
ComputeWaits == IF m_frameCount # 0 THEN {2, 3} ELSE {}

\* the semaphores the conversion batch signals
ComputeSignals == {1, 3}

\* records the conversion of the image into m_computeCommandBuffer and
\* submits it to the compute queue
convertRGBtoYCbCr(currentImageIx) ==
    /\ m_computeCommandBuffer' = "allocated"
    /\ computeQueue' = Append(computeQueue,
           [frame |-> nQueued, image |-> currentImageIx,
            wait |-> ComputeWaits, signal |-> ComputeSignals])

\* the frame counter taken as the GOP index, with no restart
gopFrameCount_noRestart == m_frameCount

\* m_frameCount % GOP_LENGTH
gopFrameCount == m_frameCount % GOP_LENGTH

\* 1 << (log2_max_pic_order_cnt_lsb_minus4 + 4), in encodeVideoFrame and in
\* FrameInfo
MaxPicOrderCntLsb == 2 ^ (log2_max_pic_order_cnt_lsb_minus4 + 4)

\* the StdVideoEncodeH264ReferenceInfo of the picture being encoded
dpbRefInfo(g) ==
    [FrameNum |-> g,
     PicOrderCnt |-> (g * 2) % MaxPicOrderCntLsb,
     primary_pic_type |-> IF g = 0 THEN "IDR" ELSE "P"]

\* the StdVideoEncodeH264ReferenceInfo of the reference picture; for g = 0
\* the unsigned g - 1 is 0xFFFFFFFF, kept here as the integer -1 it is
\* congruent to modulo 2^32 (MaxPicOrderCntLsb divides 2^32)
refRefInfo(g) ==
    [FrameNum |-> g - 1,
     PicOrderCnt |-> ((g - 1) * 2) % MaxPicOrderCntLsb,
     primary_pic_type |-> IF g - 1 = 0 THEN "IDR" ELSE "P"]

\* the setup slot that is always slot 0
dpbSlot_fixed(g) == [slotIndex |-> 0, image |-> 0, info |-> dpbRefInfo(g)]

\* referenceSlots[0] as vkCmdEncodeVideoKHR sees it: the setup slot
dpbSlot(g) == [slotIndex |-> Bit0(g), image |-> Bit0(g), info |-> dpbRefInfo(g)]

\* the reference slot that is the setup slot of the frame two before
refSlot_setup(g) ==
    [slotIndex |-> Bit0(g), image |-> Bit0(g), info |-> refRefInfo(g)]

\* referenceSlots[1]: the slot of the reference picture
refSlot(g) ==
    [slotIndex |-> LogicalNot(Bit0(g)), image |-> LogicalNot(Bit0(g)),
     info |-> refRefInfo(g)]

\* one reference slot bound whatever the GOP index
referenceSlotCount_always(g) == 1

\* videoEncodeInfo.referenceSlotCount, zero unless the branch assigns it
referenceSlotCount(g) == IF g > 0 THEN 1 ELSE 0

\* videoEncodeInfo.pReferenceSlots: referenceSlotCount slots from
\* referenceSlots[1] on
pReferenceSlots(g) == IF referenceSlotCount(g) = 0 THEN <<>> ELSE <<refSlot(g)>>

\* m_referenceLists.RefPicList0 of h264::FrameInfo
RefPicList0(g) ==
    [i \in 0..(STD_VIDEO_H264_MAX_NUM_LIST_REF - 1) |->
        IF i = 0 /\ g # 0 THEN LogicalNot(Bit0(g))
                          ELSE STD_VIDEO_H264_NO_REFERENCE_PICTURE]

\* a picture order count that advances by 1
FramePicOrderCnt_single(frameCount) == frameCount % MaxPicOrderCntLsb

\* the picture order count h264::FrameInfo puts into the picture info
FramePicOrderCnt(frameCount) == (frameCount * 2) % MaxPicOrderCntLsb

\* h264::FrameInfo(frameCount, ..., gopFrameCount, ...): slice header, picture
\* info and reference lists of the picture
FrameInfo(frameCount, g) ==
    [slice_type |-> IF g = 0 THEN "I" ELSE "P",
     IdrPicFlag |-> IF g = 0 THEN 1 ELSE 0,
     primary_pic_type |-> IF g = 0 THEN "IDR" ELSE "P",
     frame_num |-> frameCount,
     PicOrderCnt |-> FramePicOrderCnt(frameCount),
     RefPicList0 |-> RefPicList0(g)]

\* an encode batch that waits for the semaphore it signals itself
EncodeWaits_own == {2}

\* the semaphores the encode batch waits for and signals
EncodeWaits == {1}
EncodeSignals == {2}

\* the batch encodeVideoFrame submits to the encode queue
encodeSubmit(waits) ==
    [frame |-> nQueued, gop |-> gopFrameCount,
     pSetupReferenceSlot |-> dpbSlot(gopFrameCount),
     pReferenceSlots |-> pReferenceSlots(gopFrameCount),
     pictureInfo |-> FrameInfo(gopFrameCount, gopFrameCount),
     codingControl |-> FALSE,
     wait |-> waits, signal |-> EncodeSignals]

\* encodeVideoFrame without its vkResetFences
encodeVideoFrame_noFenceReset ==
    /\ m_encodeCommandBuffer' = "allocated"
    /\ fence' = fence
    /\ encodeQueue' = Append(encodeQueue, encodeSubmit(EncodeWaits))

\* encodeVideoFrame with no semaphore to wait for
encodeVideoFrame_noWait ==
    /\ m_encodeCommandBuffer' = "allocated"
    /\ fence' = "unsignaled"
    /\ encodeQueue' = Append(encodeQueue, encodeSubmit({}))

\* records the encode of the frame into m_encodeCommandBuffer and submits
\* it to the encode queue with the fence
encodeVideoFrame ==
    /\ m_encodeCommandBuffer' = "allocated"
    /\ fence' = "unsignaled"
    /\ encodeQueue' = Append(encodeQueue, encodeSubmit(EncodeWaits))

AllocateFaults ==
    IF m_computeCommandBuffer = "allocated" \/ m_encodeCommandBuffer = "allocated"
    THEN {"commandBufferLeaked"} ELSE {}

FreeFaults ==
    IF m_computeCommandBuffer # "allocated" \/ m_encodeCommandBuffer # "allocated"
    THEN {"commandBufferFreedTwice"} ELSE {}

\* queueEncode past its assertion
queueEncodeSubmit(currentImageIx) ==
    IF session # "live"
    THEN \E crash \in BOOLEAN :
            /\ Undefined("queueEncode", crash, 0)
            /\ m_running' = IF crash THEN m_running ELSE TRUE
            /\ UNCHANGED <<m_initialized, m_width, m_height, m_sps, m_bitStreamHeader,
                           m_bitStreamHeaderPending, m_frameCount,
                           m_computeCommandBuffer, m_encodeCommandBuffer,
                           hwVars, ghostVars>>
    ELSE /\ convertRGBtoYCbCr(currentImageIx)
         /\ encodeVideoFrame
         /\ m_running' = TRUE
         /\ faults' = faults \cup AllocateFaults
         /\ inFlight' = inFlight \cup {nQueued}
         /\ nQueued' = nQueued + 1
         /\ lastCall' = Call("queueEncode", "queued", 0, nQueued)
         /\ UNCHANGED <<m_initialized, m_width, m_height, m_sps, m_bitStreamHeader,
                        m_bitStreamHeaderPending, m_frameCount, session, sem,
                        computeBusy, encodeBusy, m_bitStreamData, queryPool,
                        m_yCbCrImage, m_dpbImages, videoSessionResets, results,
                        aborted>>

queueEncode_noAssert(currentImageIx) == queueEncodeSubmit(currentImageIx)

queueEncode(currentImageIx) ==
    IF m_running
    THEN AssertFailed("queueEncode")
    ELSE queueEncodeSubmit(currentImageIx)

\* getOutputVideoPacket that returns without waiting
getOutputVideoPacketReady_noWait == TRUE

\* waits for the fence and for the query, and reads the packet's range
getOutputVideoPacketReady ==
    /\ fence = "signaled"
    /\ queryPool > 0

\* the branch of finishEncode taken when a frame is in flight and no header
\* is pending; runningAfter is the value m_running is left with
finishEncodePacketWith(runningAfter) ==
    IF session # "live"
    THEN \E crash \in BOOLEAN, n \in 0..MaxPacketLen :
            /\ lastCall' = Call("finishEncode", "undefined", n, NoFrame)
            /\ aborted' = crash
            /\ faults' = faults \cup {"useOfDestroyedObject"}
                             \cup (IF crash THEN {} ELSE FreeFaults)
            /\ m_computeCommandBuffer' =
                   IF crash THEN m_computeCommandBuffer ELSE "freed"
            /\ m_encodeCommandBuffer' =
                   IF crash THEN m_encodeCommandBuffer ELSE "freed"
            /\ m_frameCount' =
                   IF crash THEN m_frameCount ELSE m_frameCount + 1
            /\ m_running' = IF crash THEN m_running ELSE runningAfter
            /\ UNCHANGED <<m_initialized, m_width, m_height, m_sps, m_bitStreamHeader,
                           m_bitStreamHeaderPending, hwVars, ghostVars>>
    ELSE /\ getOutputVideoPacketReady
         /\ lastCall' = Call("finishEncode", "packet", queryPool, m_bitStreamData)
         /\ results' = Append(results, m_bitStreamData)
         /\ inFlight' = inFlight \ {m_bitStreamData}
         /\ m_computeCommandBuffer' = "freed"
         /\ m_encodeCommandBuffer' = "freed"
         /\ faults' = faults \cup FreeFaults
         /\ m_frameCount' = m_frameCount + 1
         /\ m_running' = runningAfter
         /\ UNCHANGED <<m_initialized, m_width, m_height, m_sps, m_bitStreamHeader,
                        m_bitStreamHeaderPending, hwVars, nQueued, aborted>>

finishEncodePacket_staysRunning == finishEncodePacketWith(TRUE)

finishEncodePacket == finishEncodePacketWith(FALSE)

\* the branch of finishEncode that hands out m_bitStreamHeader; pendingAfter
\* is the value m_bitStreamHeaderPending is left with
finishEncodeHeaderWith(pendingAfter) ==
    /\ lastCall' = Call("finishEncode", "header", m_bitStreamHeader, Header)
    /\ results' = IF m_bitStreamHeader > 0 THEN Append(results, Header)
                                           ELSE results
    /\ m_bitStreamHeaderPending' = pendingAfter
    /\ UNCHANGED <<m_initialized, m_running, m_width, m_height, m_sps,
                   m_bitStreamHeader, m_frameCount, m_computeCommandBuffer,
                   m_encodeCommandBuffer, hwVars, inFlight, nQueued, aborted,
                   faults>>

finishEncodeHeader_staysPending == finishEncodeHeaderWith(TRUE)

finishEncodeHeader == finishEncodeHeaderWith(FALSE)

\* the branch of finishEncode that returns size 0
finishEncodeNothing ==
    /\ lastCall' = Call("finishEncode", "zero", 0, NoFrame)
    /\ UNCHANGED <<coordVars, hwVars, ghostVars, aborted, faults>>

\* finishEncode with the header handed out whether or not a frame is in flight
finishEncode_headerFirst ==
    IF m_bitStreamHeaderPending
    THEN finishEncodeHeader
    ELSE IF ~m_running
         THEN finishEncodeNothing
         ELSE finishEncodePacket

finishEncode ==
    IF ~m_running
    THEN finishEncodeNothing
    ELSE IF m_bitStreamHeaderPending
         THEN finishEncodeHeader
         ELSE finishEncodePacket

DestroyFaults == IF session # "live" THEN {"destroyedTwice"} ELSE {}

\* deinit; initializedAfter is the value m_initialized is left with
deinitWith(initializedAfter) ==
    IF ~m_initialized
    THEN /\ lastCall' = Call("deinit", "noop", 0, NoFrame)
         /\ UNCHANGED <<coordVars, hwVars, ghostVars, aborted, faults>>
    ELSE /\ (m_running /\ session = "live") => getOutputVideoPacketReady
         /\ m_computeCommandBuffer' =
                IF m_running THEN "freed" ELSE m_computeCommandBuffer
         /\ m_encodeCommandBuffer' =
                IF m_running THEN "freed" ELSE m_encodeCommandBuffer
         /\ inFlight' = IF m_running THEN inFlight \ {m_bitStreamData}
                                     ELSE inFlight
         /\ faults' = faults \cup DestroyFaults
                          \cup (IF m_running THEN FreeFaults ELSE {})
         /\ session' = "destroyed"
         /\ fence' = "destroyed"
         /\ sem' = [i \in 1..3 |-> 0]
         /\ m_bitStreamData' = NoFrame
         /\ queryPool' = 0
         /\ m_yCbCrImage' = NoFrame
         /\ m_dpbImages' = [i \in 0..1 |-> EmptySlot]
         /\ videoSessionResets' = 0
         /\ m_bitStreamHeader' = 0
         /\ m_initialized' = initializedAfter
         /\ lastCall' = Call("deinit", IF m_running THEN "drained" ELSE "released",
                             0, IF m_running THEN m_bitStreamData ELSE NoFrame)
         /\ UNCHANGED <<m_running, m_width, m_height, m_sps, m_bitStreamHeaderPending,
                        m_frameCount, computeQueue, encodeQueue, computeBusy,
                        encodeBusy, nQueued, results, aborted>>

deinit_staysInitialized == deinitWith(TRUE)

deinit == deinitWith(FALSE)

\* init past its assertion and its same-resolution return, every creation
\* call succeeding: tears an existing session down (deinit with m_running
\* false), creates everything, runs `resets` control commands on the encode
\* queue and waits for the fence
initCreateWith(width, height, resets) ==
    /\ encodeQueue = <<>> /\ encodeBusy = <<>>
    /\ faults' = faults \cup (IF m_initialized THEN DestroyFaults ELSE {})
    /\ m_width' = ClearBit0(width)
    /\ m_height' = ClearBit0(height)
    /\ m_sps' = getStdVideoH264SequenceParameterSet(ClearBit0(width),
                                                    ClearBit0(height))
    /\ session' = "live"
    /\ sem' = [i \in 1..3 |-> 0]
    /\ fence' = "signaled"
    /\ m_bitStreamData' = NoFrame
    /\ queryPool' = 0
    /\ m_yCbCrImage' = NoFrame
    /\ m_dpbImages' = [i \in 0..1 |-> EmptySlot]
    /\ videoSessionResets' = resets
    /\ \E n \in HeaderLens :
          /\ m_bitStreamHeader' = n
          /\ lastCall' = Call("init", "created", n, NoFrame)
    /\ m_bitStreamHeaderPending' = TRUE
    /\ m_frameCount' = 0
    /\ m_initialized' = TRUE
    /\ nQueued' = 0
    /\ results' = <<>>
    /\ UNCHANGED <<m_running, m_computeCommandBuffer, m_encodeCommandBuffer,
                   computeQueue, encodeQueue, computeBusy, encodeBusy, inFlight,
                   aborted>>

\* init whose control command buffer holds no control command
initCreate_noControl(width, height) == initCreateWith(width, height, 0)

initCreate(width, height) == initCreateWith(width, height, 1)

\* init past its assertion and its same-resolution return, a creation call
\* throwing: an existing session is torn down first; the exception leaves
\* before createVideoSessionParameters (early: no source or DPB format, or
\* any call up to there) or after readBitstreamHeader; what was created by
\* then is never destroyed; initializedAfter is the value m_initialized is
\* left with
initThrowWith(width, height, initializedAfter) ==
    /\ faults' = faults \cup (IF m_initialized THEN DestroyFaults ELSE {})
    /\ m_width' = ClearBit0(width)
    /\ m_height' = ClearBit0(height)
    /\ session' = "partial"
    /\ fence' = IF m_initialized THEN "destroyed" ELSE fence
    /\ sem' = [i \in 1..3 |-> 0]
    /\ m_bitStreamData' = NoFrame
    /\ queryPool' = 0
    /\ m_yCbCrImage' = NoFrame
    /\ m_dpbImages' = [i \in 0..1 |-> EmptySlot]
    /\ videoSessionResets' = 0
    /\ \E early \in BOOLEAN :
          IF early
          THEN /\ m_sps' = m_sps
               /\ m_bitStreamHeader' =
                      IF m_initialized THEN 0 ELSE m_bitStreamHeader
               /\ m_bitStreamHeaderPending' = m_bitStreamHeaderPending
          ELSE /\ m_sps' = getStdVideoH264SequenceParameterSet(
                               ClearBit0(width), ClearBit0(height))
               /\ \E n \in HeaderLens : m_bitStreamHeader' = n
               /\ m_bitStreamHeaderPending' = TRUE
    /\ m_initialized' = initializedAfter
    /\ lastCall' = Call("init", "failed", 0, NoFrame)
    /\ UNCHANGED <<m_running, m_frameCount, m_computeCommandBuffer,
                   m_encodeCommandBuffer, computeQueue, encodeQueue,
                   computeBusy, encodeBusy, ghostVars, aborted>>

\* a failing init that reports the coordinator initialized all the same
initThrow_initialized(width, height) == initThrowWith(width, height, TRUE)

initThrow(width, height) == initThrowWith(width, height, FALSE)

\* init without its same-resolution return
init_alwaysCreates(width, height) ==
    IF m_running
    THEN AssertFailed("init")
    ELSE initCreate(width, height)

init(width, height) ==
    IF m_running
    THEN AssertFailed("init")
    ELSE IF /\ m_initialized
            /\ ClearBit0(width) = m_width
            /\ ClearBit0(height) = m_height
         THEN /\ lastCall' = Call("init", "unchanged", 0, NoFrame)
              /\ UNCHANGED <<coordVars, hwVars, ghostVars, aborted, faults>>
         ELSE initCreate(width, height) \/ initThrow(width, height)

(* ---------------- any sequence of calls of the interface -------------- *)

InitCall ==
    /\ pc = "api" /\ ~aborted
    /\ \E width \in Widths, height \in Heights : init(width, height)
    /\ UNCHANGED drvVars

QueueEncodeCall ==
    /\ pc = "api" /\ ~aborted
    /\ m_running \/ (nQueued < MaxFrames /\ m_frameCount <= MaxFrames)
    /\ \E currentImageIx \in 0..(IMAGE_INFLIGHT_COUNT - 1) :
          queueEncode(currentImageIx)
    /\ UNCHANGED drvVars

FinishEncodeCall ==
    /\ pc = "api" /\ ~aborted
    /\ finishEncode
    /\ UNCHANGED drvVars

DeinitCall ==
    /\ pc = "api" /\ ~aborted
    /\ deinit
    /\ UNCHANGED drvVars

Init == InitState /\ pc = "api"

Next ==
    \/ InitCall
    \/ QueueEncodeCall
    \/ FinishEncodeCall
    \/ DeinitCall
    \/ ComputeBegin
    \/ ComputeEnd
    \/ EncodeBegin
    \/ EncodeEnd

Spec == Init /\ [][Next]_vars

\* both queues are fair: a batch whose waits are satisfied is executed, and a
\* batch that executes finishes
HardwareFairness ==
    /\ WF_vars(ComputeBegin) /\ WF_vars(ComputeEnd)
    /\ WF_vars(EncodeBegin) /\ WF_vars(EncodeEnd)

FairSpec == Spec /\ HardwareFairness

(* ------------------- the driver program of main.cpp ------------------- *)

\* initVulkan's last step
DrvInitVideoEncoder ==
    /\ pc = "initVideoEncoder" /\ ~aborted
    /\ init(WIDTH, HEIGHT)
    /\ pc' = IF lastCall'.kind = "failed" THEN "destructor"
             ELSE IF 0 < NumFramesToWrite THEN "finishEncode" ELSE "cleanup"
    /\ UNCHANGED <<currentFrameNumber, outfile>>

\* a do-while loop that never takes its exit
DrvFinishEncode_noExit ==
    /\ pc = "finishEncode" /\ ~aborted
    /\ finishEncode
    /\ outfile' = IF lastCall'.size > 0 THEN Append(outfile, lastCall'.frame)
                                        ELSE outfile
    /\ pc' = "finishEncode"
    /\ UNCHANGED currentFrameNumber

\* one round of encodeFrame's do-while loop: finishEncode, outfile.write
DrvFinishEncode ==
    /\ pc = "finishEncode" /\ ~aborted
    /\ finishEncode
    /\ outfile' = IF lastCall'.size > 0 THEN Append(outfile, lastCall'.frame)
                                        ELSE outfile
    /\ pc' = IF lastCall'.size > 0 THEN "finishEncode" ELSE "queueEncode"
    /\ UNCHANGED currentFrameNumber

\* the end of encodeFrame and the step of mainLoop's for loop
DrvQueueEncode ==
    /\ pc = "queueEncode" /\ ~aborted
    /\ queueEncode(currentFrameNumber % IMAGE_INFLIGHT_COUNT)
    /\ currentFrameNumber' = currentFrameNumber + 1
    /\ pc' = IF currentFrameNumber + 1 < NumFramesToWrite THEN "finishEncode"
                                                          ELSE "cleanup"
    /\ UNCHANGED outfile

\* cleanup: videoEncoder.deinit(), outfile.close()
DrvCleanup ==
    /\ pc = "cleanup" /\ ~aborted
    /\ deinit
    /\ pc' = "destructor"
    /\ UNCHANGED <<currentFrameNumber, outfile>>

\* ~VideoEncoder, when app goes out of scope in main
DrvDestructor ==
    /\ pc = "destructor" /\ ~aborted
    /\ deinit
    /\ pc' = "done"
    /\ UNCHANGED <<currentFrameNumber, outfile>>

DriverInit == InitState /\ pc = "initVideoEncoder"

DriverNext ==
    \/ DrvInitVideoEncoder
    \/ DrvFinishEncode
    \/ DrvQueueEncode
    \/ DrvCleanup
    \/ DrvDestructor
    \/ ComputeBegin
    \/ ComputeEnd
    \/ EncodeBegin
    \/ EncodeEnd

DriverSpec == DriverInit /\ [][DriverNext]_vars

\* the driver program keeps running: each of its steps is taken once it can be
DriverFairness ==
    /\ WF_vars(DrvInitVideoEncoder) /\ WF_vars(DrvFinishEncode)
    /\ WF_vars(DrvQueueEncode) /\ WF_vars(DrvCleanup)
    /\ WF_vars(DrvDestructor)

FairDriverSpec == DriverSpec /\ HardwareFairness /\ DriverFairness

(* ------- a client that retrieves every packet before the next frame ---- *)

\* init, first or again in Ready, with any resolution
GopInit ==
    /\ pc \in {"gopInit", "gopQueue"} /\ ~aborted
    /\ \E width \in Widths, height \in Heights : init(width, height)
    /\ pc' = IF lastCall'.kind = "failed" THEN "gopInit" ELSE "gopQueue"
    /\ UNCHANGED <<currentFrameNumber, outfile>>

GopQueueEncode ==
    /\ pc = "gopQueue" /\ ~aborted
    /\ nQueued < MaxGopFrames
    /\ \E currentImageIx \in 0..(IMAGE_INFLIGHT_COUNT - 1) :
          queueEncode(currentImageIx)
    /\ pc' = "gopFinish"
    /\ UNCHANGED <<currentFrameNumber, outfile>>

\* finishEncode, called again until it has returned the frame's packet
GopFinishEncode ==
    /\ pc = "gopFinish" /\ ~aborted
    /\ finishEncode
    /\ pc' = IF lastCall'.kind = "packet" THEN "gopQueue" ELSE "gopFinish"
    /\ UNCHANGED <<currentFrameNumber, outfile>>

\* deinit, in Ready or with the frame still in flight
GopDeinit ==
    /\ pc \in {"gopQueue", "gopFinish"} /\ ~aborted
    /\ deinit
    /\ pc' = "gopInit"
    /\ UNCHANGED <<currentFrameNumber, outfile>>

GopInitState == InitState /\ pc = "gopInit"

GopNext ==
    \/ GopInit
    \/ GopQueueEncode
    \/ GopFinishEncode
    \/ GopDeinit
    \/ ComputeBegin
    \/ ComputeEnd
    \/ EncodeBegin
    \/ EncodeEnd

GopSpec == GopInitState /\ [][GopNext]_vars

(* ---------- one session created with any of a range of resolutions ----- *)

SpsWidths == 2..MaxSpsWidth
SpsHeights == 2..MaxSpsHeight

SpsInitCall ==
    /\ pc = "sps" /\ ~aborted
    /\ \E width \in SpsWidths, height \in SpsHeights : init(width, height)
    /\ pc' = "spsDeinit"
    /\ UNCHANGED <<currentFrameNumber, outfile>>

SpsDeinitCall ==
    /\ pc = "spsDeinit" /\ ~aborted
    /\ deinit
    /\ pc' = "spsDone"
    /\ UNCHANGED <<currentFrameNumber, outfile>>

SpsInitState == InitState /\ pc = "sps"

SpsNext ==
    \/ SpsInitCall
    \/ SpsDeinitCall

SpsSpec == SpsInitState /\ [][SpsNext]_vars

(* ------------------------------ claims -------------------------------- *)

\* a step that is a call of the named operation of the interface
FinishEncodeStep == lastCall'.op = "finishEncode" /\ lastCall' # lastCall
QueueEncodeStep == lastCall'.op = "queueEncode" /\ lastCall' # lastCall
DeinitStep == lastCall'.op = "deinit" /\ lastCall' # lastCall

HeaderReturned == \E i \in DOMAIN results : results[i] = Header
PacketsReturned == Cardinality({i \in DOMAIN results : results[i] # Header})

\* C1: at most one frame is submitted and not yet retrieved: the set of such
\* frames has at most one element, neither queue holds more than one batch,
\* and in a session the frames queued minus the packets retrieved is 0 or 1.
C1_SingleFrameInFlight ==
    /\ Cardinality(inFlight) <= 1
    /\ Len(computeQueue) + Len(computeBusy) <= 1
    /\ Len(encodeQueue) + Len(encodeBusy) <= 1
    /\ m_initialized => nQueued - PacketsReturned \in {0, 1}

C1_Witness == inFlight = {1} /\ m_initialized /\ PacketsReturned = 1

\* C2: a queueEncode call made while a frame is in flight fails its assertion
\* and submits nothing: no field, no queue, no command buffer changes.
C2_QueueEncodeInFlightRejected ==
    [][(m_running /\ QueueEncodeStep) =>
           /\ aborted' /\ lastCall'.kind = "assert"
           /\ UNCHANGED <<coordVars, hwVars, ghostVars, faults>>]_vars

C2_Witness ==
    /\ aborted /\ lastCall = Call("queueEncode", "assert", 0, NoFrame)
    /\ m_initialized /\ inFlight = {1}

\* C3 as stated: every finishEncode called in Submitted (so one that returns
\* something) leaves the coordinator in Ready, where queueEncode is accepted.
C3_FinishEncodeAlwaysLeavesReady ==
    (m_initialized /\ lastCall.op = "finishEncode" /\ lastCall.kind # "zero")
        => ~m_running

\* C3 amended: finishEncode called in Submitted retrieves the in-flight
\* frame's packet and leaves Ready when the header was already handed out,
\* and hands out the header and stays in Submitted when it was not; a
\* queueEncode called in Ready is accepted.
C3_FinishEncodeLeavesReadyAfterHeader ==
    [][/\ (m_initialized /\ m_running /\ FinishEncodeStep) =>
              IF HeaderReturned
              THEN /\ lastCall'.kind = "packet"
                   /\ lastCall'.frame \in inFlight
                   /\ inFlight' = {}
                   /\ ~m_running' /\ m_initialized'
              ELSE /\ lastCall'.kind = "header"
                   /\ m_running' /\ UNCHANGED inFlight
       /\ (m_initialized /\ ~m_running /\ QueueEncodeStep) =>
              (~aborted' /\ m_running' /\ lastCall'.kind = "queued")]_vars

C3_Witness ==
    /\ lastCall = Call("queueEncode", "queued", 0, 2)
    /\ results = <<Header, 0, 1>>

\* C4 as stated: the first finishEncode after init returns the header, so
\* once finishEncode was called in a session the header has been returned.
C4_FirstFinishEncodeReturnsHeader ==
    (m_initialized /\ lastCall.op = "finishEncode") => HeaderReturned

\* C4 amended: a finishEncode called before any frame is in flight returns
\* length 0 and leaves the header pending; the first one called with a frame
\* in flight returns exactly the header bytes (length > 0); every later one
\* called with a frame in flight returns that frame's packet, not the header.
C4_FirstFinishEncodeInFlightReturnsHeader ==
    [][(m_initialized /\ FinishEncodeStep) =>
          /\ ~m_running =>
                 /\ lastCall'.size = 0
                 /\ UNCHANGED <<m_bitStreamHeaderPending, results>>
          /\ (m_running /\ ~HeaderReturned) =>
                 /\ lastCall'.kind = "header"
                 /\ lastCall'.size = m_bitStreamHeader /\ lastCall'.size > 0
                 /\ results' = <<Header>>
          /\ (m_running /\ HeaderReturned) =>
                 /\ lastCall'.kind = "packet"
                 /\ lastCall'.frame = nQueued - 1]_vars

C4_Witness ==
    /\ lastCall.op = "finishEncode" /\ lastCall.kind = "header"
    /\ lastCall.size > 0 /\ m_initialized /\ m_running

\* C5: in a session the first non-zero result of finishEncode is the header
\* and every later one is a frame's packet, so the header comes exactly once.
C5_HeaderFirstAndOnce ==
    m_initialized =>
        /\ results # <<>> => results[1] = Header
        /\ \A i \in 2..Len(results) : results[i] >= 0

C5_Witness == m_initialized /\ Len(results) = 3 /\ results[1] = Header

\* C6: finishEncode called with no frame in flight returns length 0, changes
\* nothing (no field, no command buffer, no queue, semaphore, fence or query)
\* and waits for nothing: it is enabled whatever the fence and the query are.
C6_FinishEncodeNothingInFlight ==
    /\ []((pc = "api" /\ ~aborted /\ ~m_running) => ENABLED FinishEncodeCall)
    /\ [][(~m_running /\ FinishEncodeStep) =>
              /\ lastCall'.size = 0 /\ lastCall'.kind = "zero"
              /\ UNCHANGED <<coordVars, hwVars, ghostVars, faults, aborted>>]_vars

C6_Witness ==
    /\ lastCall = Call("finishEncode", "zero", 0, NoFrame)
    /\ m_initialized /\ m_bitStreamHeaderPending

\* C7: in a session the non-zero results of finishEncode are the header, then
\* the packets of the frames in the order they were queued, the k-th packet
\* that of the k-th frame; no frame is skipped or returned twice, and in
\* Ready every queued frame's packet has been returned.
C7_ResultsInSubmissionOrder ==
    m_initialized =>
        /\ \A i \in DOMAIN results : results[i] = i - 2
        /\ ~m_running => PacketsReturned = nQueued
        /\ m_running => PacketsReturned = nQueued - 1

C7_Witness == m_initialized /\ results = <<Header, 0, 1, 2>>

\* C8: when the driver program is done, the output file holds the header
\* and then one packet for every frame it queued, the last one included.
C8_DriverWritesEveryFrame ==
    (pc = "done" /\ currentFrameNumber = NumFramesToWrite) =>
        /\ Len(outfile) = NumFramesToWrite + 1
        /\ \A i \in DOMAIN outfile : outfile[i] = i - 2

\* C9: deinit on a coordinator that is not initialized changes nothing, and
\* no object is ever destroyed twice.
C9_DeinitIdempotent ==
    /\ []("destroyedTwice" \notin faults)
    /\ [][(~m_initialized /\ DeinitStep) =>
              /\ lastCall'.kind = "noop"
              /\ UNCHANGED <<coordVars, hwVars, ghostVars, faults, aborted>>]_vars

C9_Witness ==
    /\ lastCall = Call("deinit", "noop", 0, NoFrame)
    /\ session = "destroyed" /\ ~m_initialized

\* C10: after a deinit called in Ready or in Submitted (with no misuse of the
\* interface before it) no frame is in flight, so that a following
\* finishEncode returns length 0 and a following init passes its assertion.
C10_NothingInFlightAfterDeinit ==
    (lastCall.op = "deinit" /\ lastCall.kind \in {"released", "drained"}
                            /\ faults = {})
        => (~m_running /\ ~m_initialized)

InitStep == lastCall'.op = "init" /\ lastCall' # lastCall

\* the batches submitted to a queue and not yet finished
ComputeBatches ==
    {computeQueue[i] : i \in DOMAIN computeQueue}
        \cup {computeBusy[i] : i \in DOMAIN computeBusy}
EncodeBatches ==
    {encodeQueue[i] : i \in DOMAIN encodeQueue}
        \cup {encodeBusy[i] : i \in DOMAIN encodeBusy}

\* C11: a deinit called in Submitted cannot proceed while the outstanding
\* frame's encode is incomplete; when it destroys the session the fence is
\* signalled, the query holds the size of that frame's packet and both
\* queues are idle, and nothing is ever destroyed with work left on a queue.
C11_DeinitDrainsBeforeDestroy ==
    /\ [](session = "destroyed" => (ComputeBatches = {} /\ EncodeBatches = {}))
    /\ []((pc = "api" /\ ~aborted /\ m_initialized /\ m_running
                      /\ ~(fence = "signaled" /\ queryPool > 0))
              => ~ENABLED DeinitCall)
    /\ [][(m_initialized /\ m_running /\ DeinitStep) =>
              /\ fence = "signaled" /\ queryPool > 0
              /\ ComputeBatches = {} /\ EncodeBatches = {}
              /\ m_bitStreamData = nQueued - 1 /\ inFlight = {nQueued - 1}
              /\ lastCall'.kind = "drained"
              /\ session = "live" /\ session' = "destroyed"
              /\ fence' = "destroyed"]_vars

C11_Witness ==
    /\ lastCall = Call("deinit", "drained", 0, 1)
    /\ session = "destroyed" /\ faults = {} /\ results = <<Header, 0>>

\* C12: an init called on an initialized coordinator with a width and a
\* height that, rounded down to even, are the current ones changes no field
\* of the coordinator (frame counter, GOP position, header-pending flag), no
\* session object, semaphore, fence, queue, DPB image or surface; called in
\* Ready it returns normally.
C12_InitSameResolutionNoOp ==
    [][\A width \in Widths, height \in Heights :
          (/\ m_initialized /\ ~aborted
           /\ ClearBit0(width) = m_width /\ ClearBit0(height) = m_height
           /\ init(width, height))
          => /\ UNCHANGED <<coordVars, hwVars, ghostVars, faults>>
             /\ ~m_running =>
                    (~aborted' /\ lastCall' = Call("init", "unchanged", 0, NoFrame))
      ]_vars

C12_Witness ==
    /\ lastCall = Call("init", "unchanged", 0, NoFrame)
    /\ m_initialized /\ ~m_running /\ ~m_bitStreamHeaderPending
    /\ m_frameCount = 2 /\ m_dpbImages[1].frame = 1 /\ sem[2] = 1

\* C13: an init called with a different resolution while a frame is in
\* flight (no misuse of the interface before it) returns with the session
\* recreated: initialized, nothing in flight, frame counter 0, header pending.
C13_InitWhileSubmittedRecreates ==
    [][\A width \in Widths, height \in Heights :
          (/\ m_initialized /\ m_running /\ ~aborted /\ faults = {}
           /\ (ClearBit0(width) # m_width \/ ClearBit0(height) # m_height)
           /\ init(width, height))
          => /\ ~aborted' /\ m_initialized' /\ ~m_running'
             /\ m_frameCount' = 0 /\ m_bitStreamHeaderPending'
             /\ inFlight' = {}
      ]_vars

\* C14: every encode submitted has a GOP index g in 0..15, its setup slot
\* (and DPB image) is g & 1, the reference slot !(g & 1) = 1 - (g & 1), the
\* two differ, and the RefPicList0[0] of a predicted picture is the index of
\* the reference slot the command binds.
C14_SlotsAlternate ==
    \A b \in EncodeBatches :
        /\ b.gop \in 0..(GOP_LENGTH - 1)
        /\ b.pSetupReferenceSlot.slotIndex = b.gop % 2
        /\ b.pSetupReferenceSlot.image = b.gop % 2
        /\ refSlot(b.gop).slotIndex = 1 - (b.gop % 2)
        /\ refSlot(b.gop).slotIndex # b.pSetupReferenceSlot.slotIndex
        /\ \A i \in DOMAIN b.pReferenceSlots :
              /\ b.pReferenceSlots[i].slotIndex = 1 - (b.gop % 2)
              /\ b.pReferenceSlots[i].image = 1 - (b.gop % 2)
              /\ b.pReferenceSlots[i].slotIndex # b.pSetupReferenceSlot.slotIndex
        /\ b.pictureInfo.slice_type = "P" =>
              /\ b.pReferenceSlots # <<>>
              /\ b.pictureInfo.RefPicList0[0] = b.pReferenceSlots[1].slotIndex

C14_Witness ==
    \E i \in DOMAIN encodeBusy :
        /\ encodeBusy[i].gop = 15 /\ encodeBusy[i].pictureInfo.RefPicList0[0] = 0
        /\ encodeBusy[i].pSetupReferenceSlot.slotIndex = 1

C16_PicOrderCnt ==
    /\ \A b \in EncodeBatches :
          /\ b.pictureInfo.PicOrderCnt = (2 * b.gop) % 256
          /\ b.pictureInfo.PicOrderCnt = 2 * b.gop
          /\ b.pSetupReferenceSlot.info.PicOrderCnt = b.pictureInfo.PicOrderCnt
          /\ b.gop > 0 =>
                b.pictureInfo.PicOrderCnt =
                    b.pReferenceSlots[1].info.PicOrderCnt + 2
    /\ \A i \in DOMAIN encodeBusy :
          encodeBusy[i].gop > 0 =>
              encodeBusy[i].pictureInfo.PicOrderCnt =
                  m_dpbImages[1 - (encodeBusy[i].gop % 2)].PicOrderCnt + 2

C16_Witness ==
    \E i \in DOMAIN encodeBusy :
        /\ encodeBusy[i].gop = 15 /\ encodeBusy[i].pictureInfo.PicOrderCnt = 30
        /\ m_dpbImages[0].PicOrderCnt = 28

C19_SurfaceOwnedByOneQueue ==
    /\ ~(computeBusy # <<>> /\ encodeBusy # <<>>)
    /\ \A i \in DOMAIN encodeBusy :
          /\ m_yCbCrImage = encodeBusy[i].frame
          /\ \A c \in ComputeBatches : c.frame > encodeBusy[i].frame
    /\ \A i \in DOMAIN computeBusy :
          /\ computeBusy[i].frame > 0 =>
                m_bitStreamData = computeBusy[i].frame - 1
          /\ \A e \in EncodeBatches : e.frame >= computeBusy[i].frame

C19_Witness ==
    /\ \E i \in DOMAIN computeBusy : computeBusy[i].frame = 2
    /\ m_bitStreamData = 1 /\ encodeQueue # <<>> /\ faults = {}

C21_SemaphoresBalanced ==
    /\ "semaphoreSignalledTwice" \notin faults
    /\ \A i \in DOMAIN computeBusy :
          \A k \in computeBusy[i].signal : sem[k] = 0
    /\ \A i \in DOMAIN encodeBusy :
          \A k \in encodeBusy[i].signal : sem[k] = 0
    /\ \A i \in DOMAIN computeQueue :
          /\ computeQueue[i].frame = 0 => computeQueue[i].wait = {}
          /\ computeQueue[i].frame > 0 => Cardinality(computeQueue[i].wait) = 2
          /\ \A k \in computeQueue[i].wait : sem[k] = 1
          /\ \A k \in computeQueue[i].signal :
                sem[k] = 1 => k \in computeQueue[i].wait
    /\ \A i \in DOMAIN encodeQueue :
          /\ \A k \in encodeQueue[i].wait :
                \/ sem[k] = 1
                \/ \E c \in ComputeBatches :
                      c.frame = encodeQueue[i].frame /\ k \in c.signal
          /\ \A k \in encodeQueue[i].signal :
                sem[k] = 1 =>
                    \E c \in ComputeBatches :
                        c.frame = encodeQueue[i].frame /\ k \in c.wait

C21_Witness ==
    /\ \E i \in DOMAIN computeBusy : computeBusy[i].frame = 2
    /\ sem = [k \in 1..3 |-> 0] /\ faults = {} /\ encodeQueue # <<>>

\* C22: with fair queues, whenever a frame is in flight the fence is
\* eventually signalled and the query available, so that a finishEncode
\* called then eventually returns (unless the process aborted meanwhile).
C22_FinishEncodeEventuallyReturns ==
    /\ (m_initialized /\ m_running /\ session = "live" /\ ~aborted)
           ~> (getOutputVideoPacketReady \/ aborted)
    /\ [](( pc = "api" /\ m_initialized /\ m_running /\ session = "live"
                       /\ ~aborted)
             => <>(aborted \/ ENABLED FinishEncodeCall))

C22_Witness ==
    /\ lastCall.op = "finishEncode" /\ lastCall.kind = "packet"
    /\ lastCall.frame = 2 /\ faults = {} /\ ~m_running

\* C23: the two command buffers of a frame are allocated by queueEncode and
\* freed by the finishEncode that retrieves the frame or by deinit; with no
\* frame in flight none is allocated; none is leaked, and no finishEncode
\* called by a client that misused nothing before frees one twice.
C23_CommandBuffersLiveOneCycle ==
    /\ [](~m_running => (/\ m_computeCommandBuffer # "allocated"
                         /\ m_encodeCommandBuffer # "allocated"))
    /\ []("commandBufferLeaked" \notin faults)
    /\ [][(QueueEncodeStep /\ lastCall'.kind = "queued") =>
              (/\ m_computeCommandBuffer' = "allocated"
               /\ m_encodeCommandBuffer' = "allocated")]_vars
    /\ [][(FinishEncodeStep /\ lastCall'.kind = "packet") =>
              (/\ m_computeCommandBuffer = "allocated"
               /\ m_encodeCommandBuffer = "allocated"
               /\ m_computeCommandBuffer' = "freed"
               /\ m_encodeCommandBuffer' = "freed")]_vars
    /\ [][(FinishEncodeStep /\ faults = {}) =>
              "commandBufferFreedTwice" \notin faults']_vars

\* C24: a command buffer of a frame is freed only when the fence is signalled
\* and neither queue holds or executes a batch, the frame being the one whose
\* packet is in the output buffer; the fence is reset only when it is
\* signalled and the encode queue holds and executes nothing.
C24_FreedAndResetOnlyWhenIdle ==
    /\ [][(\/ (/\ m_computeCommandBuffer = "allocated"
               /\ m_computeCommandBuffer' # "allocated")
           \/ (/\ m_encodeCommandBuffer = "allocated"
               /\ m_encodeCommandBuffer' # "allocated"))
          => (/\ fence = "signaled" /\ queryPool > 0
              /\ ComputeBatches = {} /\ EncodeBatches = {}
              /\ m_bitStreamData = nQueued - 1)]_vars
    /\ [][(fence' = "unsignaled" /\ fence # "unsignaled")
          => (fence = "signaled" /\ EncodeBatches = {})]_vars

C24_Witness ==
    /\ lastCall = Call("finishEncode", "packet", 2, 1)
    /\ m_computeCommandBuffer = "freed" /\ m_encodeCommandBuffer = "freed"
    /\ fence = "signaled" /\ faults = {}

\* C25: a live session has executed exactly one control command (reset, rate
\* control, initial transition of the DPB images): the init that creates the
\* session issues it and returns with the fence signalled and the encode queue
\* idle, so that it precedes every encode of the session; no encode batch
\* holds a control command, and only init and deinit change the count.
C25_ResetOncePerSession ==
    /\ [](session = "live" => videoSessionResets = 1)
    /\ [](\A b \in EncodeBatches : ~b.codingControl /\ videoSessionResets = 1)
    /\ [][(InitStep /\ lastCall'.kind = "created") =>
              (/\ videoSessionResets' = 1 /\ fence' = "signaled"
               /\ EncodeBatches' = {} /\ session' = "live")]_vars
    /\ [][videoSessionResets' # videoSessionResets =>
              (InitStep \/ DeinitStep)]_vars

C25_Witness ==
    /\ \E i \in DOMAIN encodeBusy : encodeBusy[i].frame = 2
    /\ videoSessionResets = 1 /\ faults = {} /\ session = "live"

\* C26: while no frame is in flight in a session no batch is queued or
\* executing, and no step other than init and deinit changes the output
\* buffer or the query; the buffer is written only by the encode of the frame
\* queued last, while that frame is in flight.
C26_PacketStableUntilNextQueueEncode ==
    /\ []((m_initialized /\ ~m_running)
              => (ComputeBatches = {} /\ EncodeBatches = {}))
    /\ [][(m_initialized /\ ~m_running /\ ~(InitStep \/ DeinitStep))
              => UNCHANGED <<m_bitStreamData, queryPool>>]_vars
    /\ [][(m_bitStreamData' # m_bitStreamData /\ ~(InitStep \/ DeinitStep))
              => (/\ m_running /\ m_running' /\ encodeBusy # <<>>
                  /\ m_bitStreamData' = nQueued - 1
                  /\ m_bitStreamData' \in inFlight)]_vars

C26_Witness ==
    /\ lastCall = Call("finishEncode", "zero", 0, NoFrame)
    /\ m_initialized /\ m_bitStreamData = 1 /\ queryPool > 0 /\ faults = {}

\* C27: the sequence parameter set of a session of (even) width w and height
\* h records ceil(w / 16) and ceil(h / 16) macroblocks, has the cropping flag
\* set exactly when w or h is not a multiple of 16, and crop offsets that are
\* half the padding: 16 * macroblocks - 2 * offset is w, respectively h.
C27_SpsDimensions ==
    m_initialized =>
        /\ m_width % 2 = 0 /\ m_height % 2 = 0
        /\ m_sps.pic_width_in_mbs_minus1 + 1 = (m_width + 15) \div 16
        /\ m_sps.pic_height_in_map_units_minus1 + 1 = (m_height + 15) \div 16
        /\ 16 * (m_sps.pic_width_in_mbs_minus1 + 1) >= m_width
        /\ 16 * m_sps.pic_width_in_mbs_minus1 < m_width
        /\ 16 * (m_sps.pic_height_in_map_units_minus1 + 1) >= m_height
        /\ 16 * m_sps.pic_height_in_map_units_minus1 < m_height
        /\ m_sps.frame_cropping_flag
               <=> (m_width % 16 # 0 \/ m_height % 16 # 0)
        /\ 2 * m_sps.frame_crop_right_offset
               = 16 * (m_sps.pic_width_in_mbs_minus1 + 1) - m_width
        /\ 2 * m_sps.frame_crop_bottom_offset
               = 16 * (m_sps.pic_height_in_map_units_minus1 + 1) - m_height

C27_Witness ==
    /\ m_initialized /\ m_width = 34 /\ m_height = 16
    /\ m_sps.frame_cropping_flag
    /\ m_sps.frame_crop_right_offset = 7 /\ m_sps.frame_crop_bottom_offset = 0
    /\ m_sps.pic_width_in_mbs_minus1 = 2

\* C28: an init in which a creation call fails returns the error to the
\* caller (the process is not aborted) and leaves the coordinator not
\* initialized, with no live session; a session that existed before it has
\* been destroyed (fence, semaphores, DPB images, encoder state); the frame
\* counter and the in-flight flag are untouched; a deinit that follows
\* changes nothing.
C28_FailedInitLeavesUninitialized ==
    /\ [][(InitStep /\ lastCall'.kind = "failed") =>
              (/\ ~m_initialized' /\ ~aborted' /\ session' = "partial"
               /\ lastCall'.size = 0
               /\ m_initialized =>
                      (/\ session = "live" /\ fence' = "destroyed"
                       /\ sem' = [i \in 1..3 |-> 0]
                       /\ m_dpbImages' = [i \in 0..1 |-> EmptySlot]
                       /\ videoSessionResets' = 0 /\ queryPool' = 0)
               /\ UNCHANGED <<m_frameCount, m_running, computeQueue,
                              encodeQueue, faults>>)]_vars
    /\ [][(DeinitStep /\ lastCall.op = "init" /\ lastCall.kind = "failed") =>
              (/\ lastCall'.kind = "noop"
               /\ UNCHANGED <<coordVars, hwVars, ghostVars, faults,
                              aborted>>)]_vars

C28_Witness ==
    /\ lastCall = Call("deinit", "noop", 0, NoFrame)
    /\ session = "partial" /\ fence = "destroyed" /\ ~m_initialized
    /\ m_frameCount = 2 /\ faults = {}

\* C29: m_frameCount changes only when an init creates a session (to 0) and
\* when a finishEncode takes the packet path (by 1); queueEncode, a
\* finishEncode that returns the header or length 0, and an init with the
\* current resolution leave it unchanged; a finishEncode that returns the
\* header changes the header-pending flag and nothing else.
C29_FrameCounterChanges ==
    /\ [][m_frameCount' # m_frameCount =>
              \/ (InitStep /\ lastCall'.kind = "created" /\ m_frameCount' = 0)
              \/ (/\ FinishEncodeStep
                  /\ lastCall'.kind \in {"packet", "undefined"}
                  /\ m_frameCount' = m_frameCount + 1)]_vars
    /\ [][(InitStep /\ lastCall'.kind = "created") => m_frameCount' = 0]_vars
    /\ [][(FinishEncodeStep /\ lastCall'.kind = "packet") =>
              m_frameCount' = m_frameCount + 1]_vars
    /\ [][(\/ QueueEncodeStep
           \/ (FinishEncodeStep /\ lastCall'.kind \in {"header", "zero"}))
              => UNCHANGED m_frameCount]_vars
    /\ [][\A width \in Widths, height \in Heights :
              (/\ m_initialized /\ ~aborted
               /\ ClearBit0(width) = m_width /\ ClearBit0(height) = m_height
               /\ init(width, height))
              => UNCHANGED m_frameCount]_vars
    /\ [][(FinishEncodeStep /\ lastCall'.kind = "header") =>
              (/\ m_bitStreamHeaderPending /\ ~m_bitStreamHeaderPending'
               /\ UNCHANGED <<m_initialized, m_running, m_width, m_height,
                              m_sps, m_bitStreamHeader, m_frameCount,
                              m_computeCommandBuffer, m_encodeCommandBuffer,
                              hwVars, inFlight, nQueued, faults,
                              aborted>>)]_vars

C29_Witness ==
    /\ lastCall.op = "finishEncode" /\ lastCall.kind = "packet"
    /\ m_frameCount = 3 /\ nQueued = 3 /\ faults = {}

\* C30: in the driver program every run of the loop that calls finishEncode
\* until it returns length 0 ends; when it has ended the coordinator is
\* initialized with no frame in flight and idle queues, the queueEncode that
\* follows is accepted, and no assertion ever fails.
C30_DrainLoopTerminates ==
    /\ [](pc = "finishEncode" => <>(pc = "queueEncode"))
    /\ [](pc = "queueEncode" =>
              (/\ m_initialized /\ ~m_running /\ inFlight = {}
               /\ ComputeBatches = {} /\ EncodeBatches = {}
               /\ lastCall = Call("finishEncode", "zero", 0, NoFrame)))
    /\ [][(pc = "queueEncode" /\ pc' # pc) =>
              (lastCall'.kind = "queued" /\ m_running')]_vars
    /\ [](~aborted /\ lastCall.kind # "assert")

C30_Witness ==
    /\ pc = "queueEncode" /\ currentFrameNumber = NumFramesToWrite - 1
    /\ Len(outfile) = NumFramesToWrite /\ ~m_running

====
